---- MODULE Spec2Model ----
(***************************************************************************)
(* Model of datasets/diagram_offline.py: the DiagramOffline entity (patch  *)
(* extraction, charge-regime lookup, line/patch intersection, device       *)
(* transfer, set-level normalization) and the load_diagrams filter         *)
(* cascade.                                                                *)
(*                                                                         *)
(* Conventions.  Python sequences are 0-based, TLA+ sequences 1-based:     *)
(* PyIndex and PySlice carry Python's index semantics (negative indices    *)
(* wrap, IndexError outside [-n, n-1], slices clip).  A call is modelled   *)
(* as one action that stores the call and its outcome in `call` and        *)
(* `result`; Return is the caller taking the outcome.  An exception is an  *)
(* outcome [exc |-> "<Name>"].  Voltages are integers (a fixed unit), so   *)
(* that the geometry is exact.  shapely's Polygon is restricted to         *)
(* axis-parallel rectangles and LineString to polylines on integer points. *)
(***************************************************************************)
EXTENDS Integers, Sequences, FiniteSets, TLC

VARIABLES
    settings,          \* utils.settings.settings: the options the code reads
    x_axes, y_axes,    \* self.x_axes, self.y_axes
    values,            \* self.values: matrix, values[row][col]
    values_norm,       \* self.values_norm: None or a matrix
    transition_lines,  \* self.transition_lines: None or a list of polylines
    charge_areas,      \* self.charge_areas: None or a list of (regime, polygon)
    devices,           \* the device of values and of values_norm
    call, result,      \* the pending call on the diagram and its outcome
    ld,                \* load_diagrams: its arguments
    nb_no_label, nb_excluded, nb_filtered,
    diagrams,          \* load_diagrams: the list being built
    cur,               \* load_diagrams: the file of the current iteration
    iterated,          \* load_diagrams: the base names iterated so far
    pc                 \* load_diagrams: "idle" | "loop" | "returned" | "raised"

diagVars == <<x_axes, y_axes, values, values_norm, transition_lines, charge_areas, devices>>
callVars == <<call, result>>
loadVars == <<ld, nb_no_label, nb_excluded, nb_filtered, diagrams, cur, iterated, pc>>
vars == <<settings, diagVars, callVars, loadVars>>

\* an optional value: None, or Some(v) holding v
None == <<>>
Some(v) == <<v>>
The(o) == o[1]

----------------------------------------------------------------------------
(* Bounds of the model *)

MaxH == 4          \* grid rows of the patch specification
MaxW == 9          \* grid columns of the patch specification
MaxPatch == 3      \* patch_size per axis
MaxOverlap == 1    \* overlap per axis
MaxOffset == 1     \* label_offset per axis
ChargeDim == 4     \* grid rows and columns of the charge specification
LifeH == 2         \* grid rows of the lifecycle specification
LifeW == 3         \* grid columns of the lifecycle specification
MaxFiles == 2      \* files iterated by load_diagrams
XStart == 10       \* x_start of the grid file header
YStart == 20       \* y_start of the grid file header
Step == 2          \* step of the grid file header

----------------------------------------------------------------------------
(* Python semantics *)

Min2(a, b) == IF a <= b THEN a ELSE b
Max2(a, b) == IF a >= b THEN a ELSE b

\* seq[i] raises IndexError unless -len <= i < len
PyIndexOK(seq, i) == -Len(seq) <= i /\ i < Len(seq)
PyIndex(seq, i) == IF i >= 0 THEN seq[i + 1] ELSE seq[Len(seq) + i + 1]

\* a slice bound clipped to [0, n]
PyClip(i, n) == IF i < 0 THEN Max2(i + n, 0) ELSE Min2(i, n)
PySlice(seq, a, b) ==
    LET lo == PyClip(a, Len(seq))
        hi == PyClip(b, Len(seq))
    IN [k \in 1..Max2(hi - lo, 0) |-> seq[lo + k]]

\* m[sy:ey, sx:ex]
Slice2D(m, sy, ey, sx, ex) ==
    LET rows == PySlice(m, sy, ey)
    IN [r \in 1..Len(rows) |-> PySlice(rows[r], sx, ex)]

\* range(start, stop, step), step > 0
PyRange(start, stop, step) ==
    LET n == IF stop <= start THEN 0 ELSE (stop - start + step - 1) \div step
    IN [k \in 1..n |-> start + (k - 1) * step]

NbRows(m) == Len(m)
NbCols(m) == IF Len(m) = 0 THEN 0 ELSE Len(m[1])
Shape(m) == <<NbRows(m), NbCols(m)>>

----------------------------------------------------------------------------
(* shapely: points, rectangles, polylines *)

Cross(o, a, b) == (a[1] - o[1]) * (b[2] - o[2]) - (a[2] - o[2]) * (b[1] - o[1])

\* r, collinear with p and q, lies on the segment pq
OnSegment(p, q, r) ==
    /\ Min2(p[1], q[1]) <= r[1] /\ r[1] <= Max2(p[1], q[1])
    /\ Min2(p[2], q[2]) <= r[2] /\ r[2] <= Max2(p[2], q[2])

Sign(n) == IF n > 0 THEN 1 ELSE IF n < 0 THEN -1 ELSE 0

SegmentsIntersect(p1, p2, p3, p4) ==
    LET d1 == Sign(Cross(p3, p4, p1))
        d2 == Sign(Cross(p3, p4, p2))
        d3 == Sign(Cross(p1, p2, p3))
        d4 == Sign(Cross(p1, p2, p4))
    IN \/ (d1 * d2 < 0 /\ d3 * d4 < 0)
       \/ (d1 = 0 /\ OnSegment(p3, p4, p1))
       \/ (d2 = 0 /\ OnSegment(p3, p4, p2))
       \/ (d3 = 0 /\ OnSegment(p1, p2, p3))
       \/ (d4 = 0 /\ OnSegment(p1, p2, p4))

\* Polygon([(sx, sy), (ex, sy), (ex, ey), (sx, ey)])
PatchShape(sx, sy, ex, ey) ==
    [x1 |-> Min2(sx, ex), x2 |-> Max2(sx, ex), y1 |-> Min2(sy, ey), y2 |-> Max2(sy, ey)]

\* the closed rectangle holds p
Covers(rect, p) ==
    rect.x1 <= p[1] /\ p[1] <= rect.x2 /\ rect.y1 <= p[2] /\ p[2] <= rect.y2

\* Polygon.contains(Point): the interior holds p, the boundary does not count
Contains(rect, p) ==
    rect.x1 < p[1] /\ p[1] < rect.x2 /\ rect.y1 < p[2] /\ p[2] < rect.y2

SegmentIntersectsRect(p, q, rect) ==
    \/ Covers(rect, p)
    \/ Covers(rect, q)
    \/ SegmentsIntersect(p, q, <<rect.x1, rect.y1>>, <<rect.x2, rect.y1>>)
    \/ SegmentsIntersect(p, q, <<rect.x2, rect.y1>>, <<rect.x2, rect.y2>>)
    \/ SegmentsIntersect(p, q, <<rect.x2, rect.y2>>, <<rect.x1, rect.y2>>)
    \/ SegmentsIntersect(p, q, <<rect.x1, rect.y2>>, <<rect.x1, rect.y1>>)

\* LineString.intersects(Polygon)
Intersects(line, rect) ==
    \E i \in 1..(Len(line) - 1) : SegmentIntersectsRect(line[i], line[i + 1], rect)

\* any([line.intersects(patch_shape) for line in self.transition_lines])
AnyLineIntersects(lines, rect) ==
    \E i \in 1..Len(lines) : Intersects(lines[i], rect)

----------------------------------------------------------------------------
(* The diagram *)

UNKNOWN == "UNKNOWN"

\* x = np.arange(n) * step + start
Axis(n, start) == [i \in 1..n |-> (i - 1) * Step + start]

\* the measured grid.  A cell of a tensor is a quotient <<numerator, denominator>>
\* (a measured value v is <<v, 1>>); each cell holds a value of its own, so that
\* a patch tells where it was cut from
Grid(h, w) == [r \in 1..h |-> [c \in 1..w |-> <<(r - 1) * w + (c - 1), 1>>]]

\* the diagram as the methods see it
Self ==
    [x_axes |-> x_axes, y_axes |-> y_axes, values |-> values, values_norm |-> values_norm,
     transition_lines |-> transition_lines, charge_areas |-> charge_areas]

\* the outcome of a call: a returned value, or an exception
Ok(v) == [exc |-> "none", val |-> Some(v)]
Raise(e) == [exc |-> e, val |-> None]

ReadOps == {"get_patch", "get_patches", "get_charge", "is_line_in_patch"}

NoCall ==
    [op |-> "idle", coord |-> <<0, 0>>, size |-> <<0, 0>>, overlap |-> <<0, 0>>,
     offset |-> <<0, 0>>, normalized |-> FALSE]

Idle == call.op = "idle"

\* DiagramOffline.__init__
Construct(x, y, v, lines, areas) ==
    /\ x_axes = x
    /\ y_axes = y
    /\ values = v
    /\ values_norm = None
    /\ transition_lines = lines
    /\ charge_areas = areas
    /\ devices = [values |-> "cpu", values_norm |-> "absent"]

\* annotations the specifications draw from
LineA == <<<<XStart + 1, YStart - 1>>, <<XStart + 3, YStart + 5>>>>
LineB == <<<<XStart + 11, YStart - 2>>, <<XStart + 11, YStart + 1>>, <<XStart + 15, YStart + 1>>>>
LineSets == {None, Some(<<>>), Some(<<LineA>>), Some(<<LineA, LineB>>)}

AreaOne == <<"1_electron", [x1 |-> XStart - 1, x2 |-> XStart + 5, y1 |-> YStart - 1, y2 |-> YStart + 3]>>
AreaTwo == <<"2_electrons", [x1 |-> XStart + 3, x2 |-> XStart + 99, y1 |-> YStart - 1, y2 |-> YStart + 99]>>
AreaSets ==
    {Some(<<>>), Some(<<AreaOne>>), Some(<<AreaOne, AreaTwo>>), Some(<<AreaTwo, AreaOne>>)}

SettingsSet ==
    [use_ewma : BOOLEAN, normalization : {"train-set", "patch", "none"},
     autotuning_use_oracle : BOOLEAN, load_parasitic_lines : BOOLEAN]

DefaultSettings ==
    [use_ewma |-> FALSE, normalization |-> "none", autotuning_use_oracle |-> FALSE,
     load_parasitic_lines |-> FALSE]

NoLoad ==
    /\ ld = None
    /\ nb_no_label = 0
    /\ nb_excluded = 0
    /\ nb_filtered = 0
    /\ diagrams = <<>>
    /\ cur = None
    /\ iterated = <<>>
    /\ pc = "idle"

\* the caller takes the outcome of the pending call
Return ==
    /\ ~Idle
    /\ call' = NoCall
    /\ result' = Ok(None)
    /\ UNCHANGED <<settings, diagVars, loadVars>>

----------------------------------------------------------------------------
(* get_charge *)

\* for regime, area in self.charge_areas: if area.contains(point): return regime
RECURSIVE ChargeLoop(_, _, _)
ChargeLoop(areas, point, i) ==
    IF i > Len(areas) THEN UNKNOWN
    ELSE IF Contains(areas[i][2], point) THEN areas[i][1]
    ELSE ChargeLoop(areas, point, i + 1)

\* the same loop, had it gone on to the last area that contains the point
RECURSIVE ChargeLoopLast(_, _, _)
ChargeLoopLast(areas, point, i) ==
    IF i > Len(areas) THEN UNKNOWN
    ELSE LET rest == ChargeLoopLast(areas, point, i + 1)
         IN IF rest # UNKNOWN THEN rest
            ELSE IF Contains(areas[i][2], point) THEN areas[i][1] ELSE UNKNOWN

\* the mutant of the lookup: the last matching area wins
LastRegime(areas, point) == ChargeLoopLast(areas, point, 1)
\* the loop over self.charge_areas, from its first element
FirstRegime(areas, point) == ChargeLoop(areas, point, 1)

get_charge(d, coord_x, coord_y) ==
    IF ~PyIndexOK(d.x_axes, coord_x) \/ ~PyIndexOK(d.y_axes, coord_y)
    THEN Ok(UNKNOWN)                       \* except IndexError
    ELSE IF d.charge_areas = None
    THEN Raise("TypeError")                \* iterating None
    ELSE Ok(FirstRegime(The(d.charge_areas),
                        <<PyIndex(d.x_axes, coord_x), PyIndex(d.y_axes, coord_y)>>))

GetCharge(coord_x, coord_y) ==
    /\ Idle
    /\ call' = [NoCall EXCEPT !.op = "get_charge", !.coord = <<coord_x, coord_y>>]
    /\ result' = get_charge(Self, coord_x, coord_y)
    /\ UNCHANGED <<settings, diagVars, loadVars>>

\* pixel coordinates a caller may pass: in the grid and up to two beyond it
CoordsX == (0 - Len(x_axes) - 1)..(Len(x_axes) + 1)
CoordsY == (0 - Len(y_axes) - 1)..(Len(y_axes) + 1)

InitCharge ==
    /\ settings = DefaultSettings
    /\ \E h \in 1..ChargeDim, w \in 1..ChargeDim, areas \in AreaSets :
           Construct(Axis(w, XStart), Axis(h, YStart), Grid(h, w), Some(<<LineA>>), areas)
    /\ call = NoCall
    /\ result = Ok(None)
    /\ NoLoad

NextCharge ==
    \/ \E cx \in CoordsX, cy \in CoordsY : GetCharge(cx, cy)
    \/ Return

SpecCharge == InitCharge /\ [][NextCharge]_vars

----------------------------------------------------------------------------
(* get_patches and is_line_in_patch *)

\* if settings.use_ewma: patch_size_x = patch_size_x + 3
EwmaPixels == 3
PatchSizeX(s, patch_size) == patch_size[1] + (IF s.use_ewma THEN EwmaPixels ELSE 0)

\* range(0, diagram_size_y - patch_size_y, patch_size_y - overlap_size_y)
OriginsY(d, patch_size, overlap) ==
    PyRange(0, NbRows(d.values) - patch_size[2], patch_size[2] - overlap[2])

\* range(0, diagram_size_x - patch_size_x, patch_size_x - overlap_size_x)
OriginsX(d, s, patch_size, overlap) ==
    PyRange(0, NbCols(d.values) - PatchSizeX(s, patch_size),
            PatchSizeX(s, patch_size) - overlap[1])

\* the axis indices the label rectangle of a window is read at
LabelStartY(start_y, label_offset) == start_y + label_offset[2]
LabelEndY(end_y, label_offset) == end_y - label_offset[2]
\* the mutant: the 3 pixels on the left are not left out of the label area
LabelStartXKeepsLeft(s, start_x, label_offset) == start_x + label_offset[1]
LabelStartX(s, start_x, label_offset) ==
    start_x + label_offset[1] + (IF s.use_ewma THEN 1 ELSE 0) * EwmaPixels
LabelEndX(end_x, label_offset) == end_x - label_offset[1]

\* the mutant: the patch is cut from the normalized grid once there is one
PatchValuesNormalized(d, start_y, end_y, start_x, end_x) ==
    Slice2D(IF d.values_norm # None THEN The(d.values_norm) ELSE d.values,
            start_y, end_y, start_x, end_x)
\* the mutant: the slice stops one column early
PatchValuesShort(d, start_y, end_y, start_x, end_x) ==
    Slice2D(d.values, start_y, end_y, start_x, end_x - 1)
\* patch = self.values[start_y:end_y, start_x:end_x]
PatchValues(d, start_y, end_y, start_x, end_x) ==
    Slice2D(d.values, start_y, end_y, start_x, end_x)

\* the axis lookups of one row of windows succeed
RowLookupOK(d, patch_y, patch_size, label_offset) ==
    /\ PyIndexOK(d.y_axes, LabelStartY(patch_y, label_offset))
    /\ PyIndexOK(d.y_axes, LabelEndY(patch_y + patch_size[2], label_offset))

\* the axis lookups of one window succeed
ColLookupOK(d, s, patch_x, patch_size, label_offset) ==
    /\ PyIndexOK(d.x_axes, LabelStartX(s, patch_x, label_offset))
    /\ PyIndexOK(d.x_axes, LabelEndX(patch_x + PatchSizeX(s, patch_size), label_offset))

\* the body of the inner loop: what is yielded for the window at (patch_x, patch_y),
\* with the generator's locals at the yield
Window(d, s, patch_x, patch_y, patch_size, label_offset) ==
    LET start_y == patch_y
        end_y == patch_y + patch_size[2]
        start_x == patch_x
        end_x == patch_x + PatchSizeX(s, patch_size)
        patch_shape ==
            PatchShape(PyIndex(d.x_axes, LabelStartX(s, start_x, label_offset)),
                       PyIndex(d.y_axes, LabelStartY(start_y, label_offset)),
                       PyIndex(d.x_axes, LabelEndX(end_x, label_offset)),
                       PyIndex(d.y_axes, LabelEndY(end_y, label_offset)))
    IN [patch |-> PatchValues(d, start_y, end_y, start_x, end_x),
        label |-> AnyLineIntersects(The(d.transition_lines), patch_shape),
        patch_shape |-> patch_shape,
        start_x |-> start_x, end_x |-> end_x, start_y |-> start_y, end_y |-> end_y]

\* the generator run to its end: the windows yielded, in order, and how it ended
RECURSIVE RunPatches(_, _, _, _, _, _, _, _)
RunPatches(d, s, patch_size, label_offset, ys, xs, i, j) ==
    IF i > Len(ys) THEN [exc |-> "none", val |-> <<>>]
    ELSE IF ~RowLookupOK(d, ys[i], patch_size, label_offset)
    THEN [exc |-> "IndexError", val |-> <<>>]
    ELSE IF j > Len(xs) THEN RunPatches(d, s, patch_size, label_offset, ys, xs, i + 1, 1)
    ELSE IF ~ColLookupOK(d, s, xs[j], patch_size, label_offset)
    THEN [exc |-> "IndexError", val |-> <<>>]
    ELSE IF d.transition_lines = None
    THEN [exc |-> "TypeError", val |-> <<>>]
    ELSE LET rest == RunPatches(d, s, patch_size, label_offset, ys, xs, i, j + 1)
         IN [exc |-> rest.exc,
             val |-> <<Window(d, s, xs[j], ys[i], patch_size, label_offset)>> \o rest.val]

\* val holds what was yielded, also when the generator ended by an exception
get_patches(d, s, patch_size, overlap, label_offset) ==
    LET run == RunPatches(d, s, patch_size, label_offset, OriginsY(d, patch_size, overlap),
                          OriginsX(d, s, patch_size, overlap), 1, 1)
    IN [exc |-> run.exc, val |-> Some(run.val)]

GetPatches(patch_size, overlap, label_offset) ==
    /\ Idle
    /\ call' = [NoCall EXCEPT !.op = "get_patches", !.size = patch_size,
                              !.overlap = overlap, !.offset = label_offset]
    /\ result' = get_patches(Self, settings, patch_size, overlap, label_offset)
    /\ UNCHANGED <<settings, diagVars, loadVars>>

\* the mutant: the x offset is applied to the y axis and the y offset to the x axis
LineRectSwapsOffsets(d, coordinate, patch_size, offsets) ==
    PatchShape(PyIndex(d.x_axes, coordinate[1] + offsets[2]),
               PyIndex(d.y_axes, coordinate[2] + offsets[1]),
               PyIndex(d.x_axes, coordinate[1] + patch_size[1] - offsets[2]),
               PyIndex(d.y_axes, coordinate[2] + patch_size[2] - offsets[1]))
\* the patch shape of is_line_in_patch
LineRect(d, coordinate, patch_size, offsets) ==
    PatchShape(PyIndex(d.x_axes, coordinate[1] + offsets[1]),
               PyIndex(d.y_axes, coordinate[2] + offsets[2]),
               PyIndex(d.x_axes, coordinate[1] + patch_size[1] - offsets[1]),
               PyIndex(d.y_axes, coordinate[2] + patch_size[2] - offsets[2]))

is_line_in_patch(d, coordinate, patch_size, offsets) ==
    IF \/ ~PyIndexOK(d.x_axes, coordinate[1] + offsets[1])
       \/ ~PyIndexOK(d.y_axes, coordinate[2] + offsets[2])
       \/ ~PyIndexOK(d.x_axes, coordinate[1] + patch_size[1] - offsets[1])
       \/ ~PyIndexOK(d.y_axes, coordinate[2] + patch_size[2] - offsets[2])
    THEN Raise("IndexError")
    ELSE IF d.transition_lines = None
    THEN Raise("TypeError")
    ELSE Ok(AnyLineIntersects(The(d.transition_lines),
                               LineRect(d, coordinate, patch_size, offsets)))

IsLineInPatch(coordinate, patch_size, offsets) ==
    /\ Idle
    /\ call' = [NoCall EXCEPT !.op = "is_line_in_patch", !.coord = coordinate,
                              !.size = patch_size, !.offset = offsets]
    /\ result' = is_line_in_patch(Self, coordinate, patch_size, offsets)
    /\ UNCHANGED <<settings, diagVars, loadVars>>

\* the arguments the specifications draw: overlap < patch_size, and a label
\* rectangle that keeps a positive width and height
PatchSizes == (1..MaxPatch) \X (1..MaxPatch)
Overlaps(patch_size) ==
    {o \in (0..MaxOverlap) \X (0..MaxOverlap) : o[1] < patch_size[1] /\ o[2] < patch_size[2]}
Offsets(patch_size) ==
    {o \in (0..MaxOffset) \X (0..MaxOffset) :
        2 * o[1] < patch_size[1] /\ 2 * o[2] < patch_size[2]}
GridCoords == (0..(Len(x_axes) - 1)) \X (0..(Len(y_axes) - 1))

InitPatches ==
    /\ \E e \in BOOLEAN : settings = [DefaultSettings EXCEPT !.use_ewma = e]
    /\ \E h \in 1..MaxH, w \in 1..MaxW, lines \in LineSets :
           Construct(Axis(w, XStart), Axis(h, YStart), Grid(h, w), lines, Some(<<AreaOne>>))
    /\ call = NoCall
    /\ result = Ok(None)
    /\ NoLoad

NextPatches ==
    \/ \E ps \in PatchSizes : \E ov \in Overlaps(ps), lo \in Offsets(ps) :
           GetPatches(ps, ov, lo)
    \/ Return

SpecPatches == InitPatches /\ [][NextPatches]_vars

----------------------------------------------------------------------------
(* get_patch, to, normalize_diagrams *)

\* the values of a raw patch (cells of denominator 1)
MatrixValues(m) == {m[r][c][1] : r \in 1..NbRows(m), c \in 1..NbCols(m)}
MatrixMin(m) == CHOOSE v \in MatrixValues(m) : \A u \in MatrixValues(m) : v <= u
MatrixMax(m) == CHOOSE v \in MatrixValues(m) : \A u \in MatrixValues(m) : v >= u

\* (t - lo) / (hi - lo), cell by cell (a zero denominator is the tensor's nan or
\* inf, not an exception)
Rescale(t, lo, hi) ==
    [r \in 1..Len(t) |->
        [c \in 1..Len(t[r]) |-> <<t[r][c][1] - lo * t[r][c][2], t[r][c][2] * (hi - lo)>>]]

get_patch(d, s, coordinate, patch_size, normalized) ==
    LET coord_x == coordinate[1]
        coord_y == coordinate[2]
        size_x == patch_size[1]
        size_y == patch_size[2]
        patch == Slice2D(d.values, coord_y, coord_y + size_y, coord_x, coord_x + size_x)
    IN IF normalized /\ s.normalization = "train-set"
       THEN IF d.values_norm = None
            THEN Raise("TypeError")        \* None is not subscriptable
            ELSE Ok(Slice2D(The(d.values_norm), coord_y, coord_y + size_y, coord_x, coord_x + size_x))
       ELSE IF normalized /\ s.normalization = "patch"
       THEN IF MatrixValues(patch) = {}
            THEN Raise("RuntimeError")     \* min() of an empty tensor
            ELSE Ok(Rescale(patch, MatrixMin(patch), MatrixMax(patch)))
       ELSE Ok(patch)

GetPatch(coordinate, patch_size, normalized) ==
    /\ Idle
    /\ call' = [NoCall EXCEPT !.op = "get_patch", !.coord = coordinate,
                              !.size = patch_size, !.normalized = normalized]
    /\ result' = get_patch(Self, settings, coordinate, patch_size, normalized)
    /\ UNCHANGED <<settings, diagVars, loadVars>>

\* Diagram.to of the base class: the raw grid goes to the device
BaseTo(devs, device) == [devs EXCEPT !.values = device]

\* Tensor.to: the same cells on the device
TensorTo(t) == [r \in 1..Len(t) |-> [c \in 1..Len(t[r]) |-> t[r][c]]]

To(device) ==
    /\ Idle
    /\ call' = [NoCall EXCEPT !.op = "to"]
    /\ result' = Ok(None)
    /\ IF values_norm # None
       THEN /\ values_norm' = Some(TensorTo(The(values_norm)))
            /\ devices' = [BaseTo(devices, device) EXCEPT !.values_norm = device]
       ELSE /\ values_norm' = values_norm
            /\ devices' = BaseTo(devices, device)
    /\ UNCHANGED <<settings, x_axes, y_axes, values, transition_lines, charge_areas, loadVars>>

\* the mutant: the pass is skipped when the oracle is off
SkipsUnlessOracle(s) == ~s.autotuning_use_oracle
\* if settings.autotuning_use_oracle: return
SkipsNormalization(s) == s.autotuning_use_oracle

\* normalize_diagrams over a set that holds this diagram; stats is what
\* load_normalization returns
NormalizeDiagrams(stats) ==
    /\ Idle
    /\ call' = [NoCall EXCEPT !.op = "normalize_diagrams"]
    /\ result' = Ok(None)
    /\ IF SkipsNormalization(settings)
       THEN UNCHANGED <<values_norm, devices>>
       ELSE /\ values_norm' = Some(Rescale(values, stats[1], stats[2]))
            /\ devices' = [devices EXCEPT !.values_norm = devices.values]
    /\ UNCHANGED <<settings, x_axes, y_axes, values, transition_lines, charge_areas, loadVars>>

Devices == {"cpu", "cuda"}
NormStats == {<<0, 4>>, <<2, 2>>}
PatchCoords == (0..Len(x_axes)) \X (0..Len(y_axes))

\* what a read returns on diagram d
ReadOutcome(c, d) ==
    CASE c.op = "get_patch" -> get_patch(d, settings, c.coord, c.size, c.normalized)
      [] c.op = "get_patches" -> get_patches(d, settings, c.size, c.overlap, c.offset)
      [] c.op = "get_charge" -> get_charge(d, c.coord[1], c.coord[2])
      [] c.op = "is_line_in_patch" -> is_line_in_patch(d, c.coord, c.size, c.offset)

Init ==
    /\ settings \in {s \in SettingsSet : ~s.load_parasitic_lines /\ ~s.use_ewma}
    /\ \E a \in {<<None, None>>, <<Some(<<LineA>>), Some(<<AreaOne, AreaTwo>>)>>} :
           Construct(Axis(LifeW, XStart), Axis(LifeH, YStart), Grid(LifeH, LifeW), a[1], a[2])
    /\ call = NoCall
    /\ result = Ok(None)
    /\ NoLoad

Next ==
    \/ \E c \in PatchCoords, ps \in PatchSizes, n \in BOOLEAN : GetPatch(c, ps, n)
    \/ \E ps \in PatchSizes : \E ov \in Overlaps(ps), lo \in Offsets(ps) :
           GetPatches(ps, ov, lo)
    \/ \E cx \in CoordsX, cy \in CoordsY : GetCharge(cx, cy)
    \/ \E c \in GridCoords, ps \in PatchSizes : \E lo \in Offsets(ps) :
           IsLineInPatch(c, ps, lo)
    \/ \E dev \in Devices : To(dev)
    \/ \E st \in NormStats : NormalizeDiagrams(st)
    \/ Return

Spec == Init /\ [][Next]_vars

----------------------------------------------------------------------------
(* Claims about the lifecycle *)

Unnormalized == values_norm = None
Normalized == values_norm # None

(* C9: a Diagram starts Unnormalized; the normalization pass with oracle    *)
(* mode off moves it to Normalized, values_norm having the shape of values; *)
(* no later call returns it to Unnormalized; with oracle mode on the pass   *)
(* leaves the diagram as it is, so an Unnormalized one stays Unnormalized.  *)
C9_Step ==
    /\ Normalized => (Normalized' /\ Shape(The(values_norm')) = Shape(values'))
    /\ (Idle /\ call'.op = "normalize_diagrams" /\ ~settings.autotuning_use_oracle)
          => (Normalized' /\ Shape(The(values_norm')) = Shape(values'))
    /\ (Idle /\ call'.op = "normalize_diagrams" /\ settings.autotuning_use_oracle)
          => values_norm' = values_norm

C9_NormalizedNeverReverts == Unnormalized /\ [][C9_Step]_vars

\* a diagram that was normalized and then transferred
C9_Witness ==
    /\ Normalized
    /\ Shape(The(values_norm)) = Shape(values)
    /\ call.op = "to"
    /\ devices.values_norm = "cuda"

(* C10 as claimed: every read returns the same on the Unnormalized and on   *)
(* the Normalized diagram; get_patch with normalized=True under 'train-set' *)
(* does not fail on an Unnormalized diagram.                                *)
C10_StateIndependentReads ==
    call.op \in ReadOps
        => /\ result = ReadOutcome(call, [Self EXCEPT !.values_norm = None])
           /\ \A st \in NormStats :
                 result = ReadOutcome(call, [Self EXCEPT !.values_norm =
                                                  Some(Rescale(values, st[1], st[2]))])

TrainSetPatch(c) ==
    c.op = "get_patch" /\ c.normalized /\ settings.normalization = "train-set"

(* C10 as amended: get_patches, get_charge, is_line_in_patch, and get_patch *)
(* unless called with normalized=True under 'train-set', return the same on *)
(* the Unnormalized and on the Normalized diagram; get_patch with           *)
(* normalized=True under 'train-set' raises TypeError on an Unnormalized    *)
(* diagram and returns the slice of values_norm on a Normalized one; no     *)
(* read changes values, values_norm, the axes or the annotation lists.      *)
C10_ReadStep ==
    (Idle /\ call'.op \in ReadOps)
        => /\ UNCHANGED <<x_axes, y_axes, values, values_norm, transition_lines, charge_areas>>
           /\ ~TrainSetPatch(call') =>
                 /\ result' = ReadOutcome(call', [Self EXCEPT !.values_norm = None])
                 /\ \A st \in NormStats :
                       result' = ReadOutcome(call', [Self EXCEPT !.values_norm =
                                                         Some(Rescale(values, st[1], st[2]))])
           /\ (TrainSetPatch(call') /\ Unnormalized) => result' = Raise("TypeError")
           /\ (TrainSetPatch(call') /\ Normalized) =>
                 result' = Ok(Slice2D(The(values_norm), call'.coord[2], call'.coord[2] + call'.size[2],
                                      call'.coord[1], call'.coord[1] + call'.size[1]))

C10_ReadsButTrainSetPatch == [][C10_ReadStep]_vars

\* get_patch(normalized=True) under 'train-set' on an Unnormalized diagram
C10_Witness ==
    /\ TrainSetPatch(call)
    /\ Unnormalized
    /\ result = Raise("TypeError")

----------------------------------------------------------------------------
(* load_diagrams *)

\* a record of the label file: its projects, each with the classifications
\* and the objects of labels[0].annotations
Project(name, classifications, objects) ==
    [name |-> name, classifications |-> classifications, objects |-> objects]
PixelSize(text) == [name |-> "pixel_size_volt", answer |-> text]
NbDot(choice) == [name |-> "nb_dot", answer |-> choice]
Annotated == <<"line_1", "1_electron", "line_2">>

SampleLabels ==
    { <<Project("other", <<PixelSize("0.001"), NbDot("single")>>, Annotated)>>,
      <<Project("other", <<>>, <<>>), Project("qdsd", <<NbDot("single")>>, Annotated)>>,
      <<Project("QDSD", <<PixelSize("abc"), NbDot("single")>>, Annotated)>>,
      <<Project("QDSD", <<PixelSize("0.001")>>, Annotated)>>,
      <<Project("qdsd", <<PixelSize("0.001"), NbDot("single")>>, Annotated)>>,
      <<Project("QDSD", <<NbDot("double"), PixelSize("0.0025")>>, Annotated)>>,
      <<Project("QDSD", <<PixelSize("0.001"), NbDot("single")>>, <<"0_electron", "text">>)>>,
      <<Project("QDSD", <<PixelSize("0.001"), NbDot("single")>>, <<"line_2">>)>>,
      <<Project("QDSD", <<PixelSize("0.001"), NbDot("single")>>, <<"line_parasite", "2_electrons">>)>> }

AllNames == <<"d1", "d2", "d3", "d4">>
Names == {AllNames[i] : i \in 1..MaxFiles}

\* str.upper() on the project names of the samples
Upper(name) == IF name \in {"qdsd", "QDSD"} THEN "QDSD" ELSE "OTHER"

\* float(text) succeeds
IsFloat(text) == text \in {"0.001", "0.0025"}

\* 'electron' in name
HasElectron(name) == name \in {"0_electron", "1_electron", "2_electrons"}

\* next(filter(...)) over a sequence, given the indices that pass the filter:
\* the first of them, 0 for StopIteration
NextOf(passing) ==
    IF passing = {} THEN 0 ELSE CHOOSE i \in passing : \A j \in passing : i <= j

\* next(filter(lambda l: l['name'].upper() == 'QDSD', projects))
FirstQDSD(projects) ==
    NextOf({i \in 1..Len(projects) : Upper(projects[i].name) = "QDSD"})

\* next(filter(lambda l: l['name'] == name, classifications))
FirstNamed(classifications, name) ==
    NextOf({i \in 1..Len(classifications) : classifications[i].name = name})

\* white_list and not (file_basename in white_list)
NotInWhiteList(white_list, file_basename) ==
    /\ white_list # None
    /\ The(white_list) # <<>>
    /\ \A i \in 1..Len(The(white_list)) : The(white_list)[i] # file_basename

LineLabels(s) ==
    IF s.load_parasitic_lines THEN {"line_1", "line_2", "line_parasite"} ELSE {"line_1", "line_2"}

\* the mutant: an empty list is not told from a filled one
NeverEmpty(annotations) == FALSE
\* len(transition_lines) == 0, len(charge_area) == 0
IsEmptyList(annotations) == Len(annotations) = 0

\* one iteration of the loop over the files: what it does for the file named
\* file_basename whose record in labels is label (None: no record)
Iteration(args, s, file_basename, label) ==
    IF NotInWhiteList(args.white_list, file_basename) THEN [outcome |-> "excluded"]
    ELSE IF label = None THEN [outcome |-> "no_label"]
    ELSE IF FirstQDSD(The(label)) = 0 THEN [outcome |-> "no_label"]
    ELSE
      LET current_labels == The(label)[FirstQDSD(The(label))]
          pixel == FirstNamed(current_labels.classifications, "pixel_size_volt")
          dot == FirstNamed(current_labels.classifications, "nb_dot")
          IsLine(name) == name \in LineLabels(s)
          lines ==
              IF args.load_lines THEN Some(SelectSeq(current_labels.objects, IsLine)) ELSE None
          charge_area ==
              IF args.load_areas THEN Some(SelectSeq(current_labels.objects, HasElectron))
              ELSE None
      IN IF pixel = 0 THEN [outcome |-> "no_label"]              \* except StopIteration
         ELSE IF ~IsFloat(current_labels.classifications[pixel].answer)
         THEN [outcome |-> "ValueError"]                         \* float() raises, not caught
         ELSE IF dot = 0 THEN [outcome |-> "no_label"]           \* except StopIteration
         ELSE IF args.single_dot # (current_labels.classifications[dot].answer = "single")
         THEN [outcome |-> "filtered"]
         ELSE IF args.load_lines /\ IsEmptyList(The(lines))
         THEN [outcome |-> "no_label"]
         ELSE IF args.load_areas /\ IsEmptyList(The(charge_area))
         THEN [outcome |-> "no_label"]
         ELSE [outcome |-> "appended",
               diagram |-> [name |-> file_basename, transition_lines |-> lines,
                            charge_areas |-> charge_area, values_norm |-> None]]

\* the next file of the archive directory is taken and handled
LoadIterate(file_basename, label) ==
    /\ pc = "loop"
    /\ Len(iterated) < MaxFiles
    /\ \A i \in 1..Len(iterated) : iterated[i] # file_basename
    /\ iterated' = Append(iterated, file_basename)
    /\ cur' = Some([name |-> file_basename, label |-> label])
    /\ LET it == Iteration(ld, settings, file_basename, label)
       IN /\ nb_excluded' = nb_excluded + (IF it.outcome = "excluded" THEN 1 ELSE 0)
          /\ nb_no_label' = nb_no_label + (IF it.outcome = "no_label" THEN 1 ELSE 0)
          /\ nb_filtered' = nb_filtered + (IF it.outcome = "filtered" THEN 1 ELSE 0)
          /\ diagrams' = IF it.outcome = "appended" THEN Append(diagrams, it.diagram)
                         ELSE diagrams
          /\ pc' = IF it.outcome = "ValueError" THEN "raised" ELSE "loop"
    /\ UNCHANGED <<settings, diagVars, callVars, ld>>

\* the directory is exhausted: return diagrams
LoadReturn ==
    /\ pc = "loop"
    /\ pc' = "returned"
    /\ UNCHANGED <<settings, diagVars, callVars, ld, nb_no_label, nb_excluded, nb_filtered,
                   diagrams, cur, iterated>>

WhiteLists == {None, Some(<<>>), Some(<<"d1">>)}

InitLoad ==
    /\ \E p \in BOOLEAN : settings = [DefaultSettings EXCEPT !.load_parasitic_lines = p]
    /\ Construct(Axis(1, XStart), Axis(1, YStart), Grid(1, 1), None, None)
    /\ call = NoCall
    /\ result = Ok(None)
    /\ ld \in [single_dot : BOOLEAN, load_lines : BOOLEAN, load_areas : BOOLEAN,
               white_list : WhiteLists]
    /\ nb_no_label = 0
    /\ nb_excluded = 0
    /\ nb_filtered = 0
    /\ diagrams = <<>>
    /\ cur = None
    /\ iterated = <<>>
    /\ pc = "loop"

NextLoad ==
    \/ \E n \in Names, l \in {None} \cup {Some(x) : x \in SampleLabels} : LoadIterate(n, l)
    \/ LoadReturn

SpecLoad == InitLoad /\ [][NextLoad]_vars

----------------------------------------------------------------------------
(* Claims about load_diagrams *)

\* the iteration for the file gets as far as the classifications
ReachesClassifications(f) ==
    /\ ~NotInWhiteList(ld.white_list, f.name)
    /\ f.label # None
    /\ FirstQDSD(The(f.label)) # 0

\* pixel_size_volt or nb_dot is missing, or the pixel_size_volt text is no float
BadClassifications(f) ==
    LET cls == The(f.label)[FirstQDSD(The(f.label))].classifications
    IN \/ FirstNamed(cls, "pixel_size_volt") = 0
       \/ FirstNamed(cls, "nb_dot") = 0
       \/ ~IsFloat(cls[FirstNamed(cls, "pixel_size_volt")].answer)

(* C3: a file whose project sub-record has pixel_size_volt or nb_dot       *)
(* missing or malformed is skipped without raising: unlabeled + 1,         *)
(* filtered unchanged, nothing appended, the loop goes on.                 *)
C3_Step ==
    (pc = "loop" /\ Len(iterated') = Len(iterated) + 1
        /\ ReachesClassifications(The(cur')) /\ BadClassifications(The(cur')))
    => /\ pc' = "loop"
       /\ nb_no_label' = nb_no_label + 1
       /\ nb_filtered' = nb_filtered
       /\ diagrams' = diagrams

C3_BadClassificationIsSkipped == [][C3_Step]_vars

(* C4: when a whitelist is given, the empty list included, every diagram   *)
(* of the returned list has its base name in the whitelist.                *)
C4_WhiteListRespected ==
    (pc = "returned" /\ ld.white_list # None)
        => \A i \in 1..Len(diagrams) :
              \E j \in 1..Len(The(ld.white_list)) : The(ld.white_list)[j] = diagrams[i].name

\* the file the step has just handled, and its QDSD sub-record
Handled == pc = "loop" /\ Len(iterated') = Len(iterated) + 1
SubRecord(f) == The(f.label)[FirstQDSD(The(f.label))]
DotAnswer(f) ==
    SubRecord(f).classifications[FirstNamed(SubRecord(f).classifications, "nb_dot")].answer
RequestedLines(f) == {i \in 1..Len(SubRecord(f).objects) : SubRecord(f).objects[i] \in LineLabels(settings)}
RequestedAreas(f) == {i \in 1..Len(SubRecord(f).objects) : HasElectron(SubRecord(f).objects[i])}

\* the outcome the cascade of C11 gives the file: the first check that fires
CascadeOutcome(f) ==
    IF NotInWhiteList(ld.white_list, f.name) THEN "excluded"
    ELSE IF f.label = None THEN "unlabeled"
    ELSE IF FirstQDSD(The(f.label)) = 0 THEN "unlabeled"
    ELSE IF \/ FirstNamed(SubRecord(f).classifications, "pixel_size_volt") = 0
            \/ FirstNamed(SubRecord(f).classifications, "nb_dot") = 0
    THEN "unlabeled"
    ELSE IF ld.single_dot # (DotAnswer(f) = "single") THEN "filtered"
    ELSE IF ld.load_lines /\ RequestedLines(f) = {} THEN "unlabeled"
    ELSE IF ld.load_areas /\ RequestedAreas(f) = {} THEN "unlabeled"
    ELSE "appended"

(* C11: every file iterated ends in exactly one outcome, the one of the    *)
(* first check that fires in the order whitelist, no label record, no      *)
(* project sub-record, missing classification, dot-count mismatch, empty   *)
(* line list, empty area list; no file makes load_diagrams raise, and      *)
(* excluded + unlabeled + filtered + len(result) stays equal to the number *)
(* of files iterated.                                                      *)
C11_Step ==
    Handled =>
        LET o == CascadeOutcome(The(cur'))
        IN /\ pc' = "loop"
           /\ nb_excluded' = nb_excluded + (IF o = "excluded" THEN 1 ELSE 0)
           /\ nb_no_label' = nb_no_label + (IF o = "unlabeled" THEN 1 ELSE 0)
           /\ nb_filtered' = nb_filtered + (IF o = "filtered" THEN 1 ELSE 0)
           /\ Len(diagrams') = Len(diagrams) + (IF o = "appended" THEN 1 ELSE 0)
           /\ nb_excluded' + nb_no_label' + nb_filtered' + Len(diagrams') = Len(iterated')

C11_ExactlyOneOutcome == [][C11_Step]_vars

\* a diagram of the result carries the annotations that were requested
AsRequested(requested, annotations) ==
    IF requested THEN annotations # None /\ Len(The(annotations)) > 0
    ELSE annotations = None
CarriesRequested(diagram) ==
    /\ AsRequested(ld.load_lines, diagram.transition_lines)
    /\ AsRequested(ld.load_areas, diagram.charge_areas)

\* the file has a QDSD sub-record with a dot count
HasDotCount(f) ==
    /\ f.label # None
    /\ FirstQDSD(The(f.label)) # 0
    /\ FirstNamed(SubRecord(f).classifications, "nb_dot") # 0

\* a requested list of the file comes out empty
RequestedComesOutEmpty(f) ==
    /\ f.label # None
    /\ FirstQDSD(The(f.label)) # 0
    /\ \/ ld.load_lines /\ RequestedLines(f) = {}
       \/ ld.load_areas /\ RequestedAreas(f) = {}

(* C12: the result grows only by the file just handled, and only if its    *)
(* dot count matches single_dot; every diagram of the result has a         *)
(* non-empty transition_lines list if load_lines and None otherwise, a     *)
(* non-empty charge_areas list if load_areas and None otherwise; a file    *)
(* whose requested line or area list comes out empty is not added.         *)
C12_Step ==
    /\ \A i \in 1..Len(diagrams') : CarriesRequested(diagrams'[i])
    /\ \/ diagrams' = diagrams
       \/ /\ Handled
          /\ Len(diagrams') = Len(diagrams) + 1
          /\ diagrams' = Append(diagrams, diagrams'[Len(diagrams')])
          /\ diagrams'[Len(diagrams')].name = The(cur').name
          /\ HasDotCount(The(cur'))
          /\ ld.single_dot = (DotAnswer(The(cur')) = "single")
    /\ (Handled /\ RequestedComesOutEmpty(The(cur'))) => diagrams' = diagrams

C12_ResultAsRequested == [][C12_Step]_vars

\* a returned list of one diagram with its lines and without areas, the
\* other file having been skipped for its empty line list
C12_Witness ==
    /\ pc = "returned"
    /\ ld.load_lines /\ ~ld.load_areas
    /\ Len(diagrams) = 1
    /\ Len(The(diagrams[1].transition_lines)) = 2
    /\ diagrams[1].charge_areas = None
    /\ Len(iterated) = 2
    /\ HasDotCount(The(cur))
    /\ ld.single_dot = (DotAnswer(The(cur)) = "single")
    /\ RequestedLines(The(cur)) = {}
    /\ nb_no_label = 1

----------------------------------------------------------------------------
(* Claims about get_patches *)

Yielded == The(result.val)
Yields == {Yielded[i] : i \in 1..Len(Yielded)}
GridH == Len(y_axes)
GridW == Len(x_axes)

\* the cells of the grid in rows y..y+ny-1 and columns x..x+nx-1 (0-based)
Cells(y, ny, x, nx) == [r \in 1..ny |-> [c \in 1..nx |-> values[y + r][x + c]]]

\* the rectangle with corners at the axis indices (ix1, iy1) and (ix2, iy2) (0-based)
RectAt(ix1, iy1, ix2, iy2) ==
    PatchShape(x_axes[ix1 + 1], y_axes[iy1 + 1], x_axes[ix2 + 1], y_axes[iy2 + 1])

(* C1: with extended-window mode off, get_patches yields exactly one patch  *)
(* for every origin (x, y) with x a multiple of px-ox, y a multiple of      *)
(* py-oy, x+px <= W and y+py <= H, and no others.                           *)
C1_EveryFittingWindow ==
    (call.op = "get_patches" /\ ~settings.use_ewma /\ result.exc = "none")
        => LET px == call.size[1]
               py == call.size[2]
               fitting ==
                   {o \in (0..GridW) \X (0..GridH) :
                       /\ o[1] % (px - call.overlap[1]) = 0
                       /\ o[2] % (py - call.overlap[2]) = 0
                       /\ o[1] + px <= GridW
                       /\ o[2] + py <= GridH}
           IN /\ {<<w.start_x, w.start_y>> : w \in Yields} = fitting
              /\ Len(Yielded) = Cardinality(fitting)

(* C6: with extended-window mode off, the label of every yielded window at  *)
(* (x, y) is true iff a TransitionLine intersects the rectangle with        *)
(* corners at the axis indices (x+lox, y+loy) and (x+px-lox, y+py-loy), and *)
(* is what is_line_in_patch((x, y), patch_size, label_offset) returns.      *)
C6_LabelIsLineInPatch ==
    (call.op = "get_patches" /\ ~settings.use_ewma)
        => \A w \in Yields :
              LET x == w.start_x
                  y == w.start_y
                  rect == RectAt(x + call.offset[1], y + call.offset[2],
                                 x + call.size[1] - call.offset[1],
                                 y + call.size[2] - call.offset[2])
              IN /\ w.label = (\E i \in 1..Len(The(transition_lines)) :
                                   Intersects(The(transition_lines)[i], rect))
                 /\ is_line_in_patch(Self, <<x, y>>, call.size, call.offset) = Ok(w.label)

\* a run with a label offset that yielded a window a line crosses and one no line crosses
C6_Witness ==
    /\ call.op = "get_patches"
    /\ ~settings.use_ewma
    /\ call.offset[1] > 0
    /\ \E w \in Yields : w.label
    /\ \E w \in Yields : ~w.label

(* C7: in extended-window mode every yielded patch is 3 columns wider than  *)
(* patch_size_x, its label rectangle spans X from axis index                *)
(* (slice start + 3 + lox) to (slice end - lox), leaving out the 3          *)
(* lowest-X columns of the slice, and the Y extent of patch and rectangle   *)
(* is the one of the mode off.                                              *)
C7_ExtendedWindow ==
    (call.op = "get_patches" /\ settings.use_ewma)
        => \A w \in Yields :
              LET px == call.size[1]
                  py == call.size[2]
                  off == get_patches(Self, [settings EXCEPT !.use_ewma = FALSE],
                                     call.size, call.overlap, call.offset).val[1]
              IN /\ w.end_x - w.start_x = px + 3
                 /\ w.patch = Cells(w.start_y, py, w.start_x, px + 3)
                 /\ w.patch_shape = RectAt(w.start_x + 3 + call.offset[1],
                                           w.start_y + call.offset[2],
                                           w.end_x - call.offset[1],
                                           w.start_y + py - call.offset[2])
                 /\ w.label = (\E i \in 1..Len(The(transition_lines)) :
                                   Intersects(The(transition_lines)[i], w.patch_shape))
                 /\ \E i \in 1..Len(off) :
                       /\ off[i].start_y = w.start_y
                       /\ off[i].end_y = w.end_y
                       /\ NbRows(off[i].patch) = NbRows(w.patch)
                       /\ off[i].patch_shape.y1 = w.patch_shape.y1
                       /\ off[i].patch_shape.y2 = w.patch_shape.y2

\* an extended window whose 3 extra columns a line crosses while its label is false
C7_Witness ==
    /\ call.op = "get_patches"
    /\ settings.use_ewma
    /\ Len(Yielded) >= 2
    /\ \E w \in Yields :
          /\ ~w.label
          /\ \E i \in 1..Len(The(transition_lines)) :
                Intersects(The(transition_lines)[i],
                           RectAt(w.start_x, w.start_y, w.start_x + 3, w.end_y))

(* C8: every yielded patch has patch_size_y rows and patch_size_x columns   *)
(* (patch_size_x + 3 in extended-window mode) and lies inside the grid.     *)
C8_FullPatchesOnly ==
    call.op = "get_patches"
        => \A w \in Yields :
              LET nx == call.size[1] + (IF settings.use_ewma THEN 3 ELSE 0)
              IN /\ Len(w.patch) = call.size[2]
                 /\ \A r \in 1..Len(w.patch) : Len(w.patch[r]) = nx
                 /\ 0 <= w.start_x /\ w.end_x <= GridW
                 /\ 0 <= w.start_y /\ w.end_y <= GridH
                 /\ w.patch = Cells(w.start_y, call.size[2], w.start_x, nx)

\* a run that yielded several windows and dropped a partial column and a partial row
C8_Witness ==
    /\ call.op = "get_patches"
    /\ Len(Yielded) >= 2
    /\ \A w \in Yields : w.end_x < GridW /\ w.end_y < GridH
    /\ \E w \in Yields :
          /\ w.start_x + (call.size[1] - call.overlap[1]) < GridW
          /\ w.start_x + (call.size[1] - call.overlap[1]) + call.size[1] > GridW
    /\ \E w \in Yields :
          /\ w.start_y + (call.size[2] - call.overlap[2]) < GridH
          /\ w.start_y + (call.size[2] - call.overlap[2]) + call.size[2] > GridH

\* the origins of the windows a run yielded, in the order of the yields
WindowOrigins(run) ==
    [i \in 1..Len(The(run.val)) |-> <<The(run.val)[i].start_x, The(run.val)[i].start_y>>]

(* C13: the first window is at (0,0); the next window is patch_size_x -     *)
(* overlap_x further in the same row, or starts the row patch_size_y -      *)
(* overlap_y further down at column 0, patch_size being the argument of the *)
(* call; the origins yielded with extended-window mode on are those yielded *)
(* with the mode off, in the same order.                                    *)
C13_OriginsIgnoreMode ==
    call.op = "get_patches"
        => LET origins == WindowOrigins(result)
               step_x == call.size[1] - call.overlap[1]
               step_y == call.size[2] - call.overlap[2]
               on == get_patches(Self, [settings EXCEPT !.use_ewma = TRUE],
                                 call.size, call.overlap, call.offset)
               off == get_patches(Self, [settings EXCEPT !.use_ewma = FALSE],
                                  call.size, call.overlap, call.offset)
           IN /\ Len(origins) > 0 => origins[1] = <<0, 0>>
              /\ \A i \in 1..(Len(origins) - 1) :
                    \/ origins[i + 1] = <<origins[i][1] + step_x, origins[i][2]>>
                    \/ origins[i + 1] = <<0, origins[i][2] + step_y>>
              /\ (on.exc = "none" /\ off.exc = "none")
                    => WindowOrigins(on) = WindowOrigins(off)

----------------------------------------------------------------------------
(* C2: for pixel coordinates outside the grid, negative ones included,      *)
(* get_charge returns UNKNOWN and never raises.                             *)
OutsideGrid(cx, cy) ==
    ~(0 <= cx /\ cx <= Len(x_axes) - 1) \/ ~(0 <= cy /\ cy <= Len(y_axes) - 1)

C2_OutOfBoundsIsUnknown ==
    (call.op = "get_charge" /\ OutsideGrid(call.coord[1], call.coord[2]))
        => result = Ok(UNKNOWN)

(* C5: for in-range pixel coordinates on a diagram with a ChargeRegion     *)
(* list, get_charge returns the regime of the first region, in list order, *)
(* whose polygon contains the point (x_axes[coord_x], y_axes[coord_y]),    *)
(* and UNKNOWN when no polygon contains it.                                *)
C5_FirstMatchWins ==
    (call.op = "get_charge" /\ ~OutsideGrid(call.coord[1], call.coord[2])
                            /\ charge_areas # None)
        => LET p == <<x_axes[call.coord[1] + 1], y_axes[call.coord[2] + 1]>>
               areas == The(charge_areas)
               hits == {i \in 1..Len(areas) : Contains(areas[i][2], p)}
           IN /\ result.exc = "none"
              /\ hits = {} => result = Ok(UNKNOWN)
              /\ hits # {} =>
                    \E i \in hits : /\ \A j \in hits : i <= j
                                    /\ result = Ok(areas[i][1])

\* a point that two overlapping regions of different regimes contain was looked up
C5_Witness ==
    /\ call.op = "get_charge"
    /\ ~OutsideGrid(call.coord[1], call.coord[2])
    /\ LET p == <<x_axes[call.coord[1] + 1], y_axes[call.coord[2] + 1]>>
           areas == The(charge_areas)
       IN /\ Len(areas) = 2
          /\ Contains(areas[1][2], p)
          /\ Contains(areas[2][2], p)
          /\ areas[1][1] # areas[2][1]
          /\ result = Ok(areas[1][1])

====
